---- MODULE Spec2Model ----
(***************************************************************************)
(* Model of generate_and_send_temp_graph.py: one run of main() as a linear *)
(* sequence of steps over three files (the Nagios perfdata file, its       *)
(* snapshot copy, the chart image), with the exceptions each step can      *)
(* raise.  An exception that main() does not catch ends the run at once.   *)
(***************************************************************************)
EXTENDS Integers, Sequences, FiniteSets, TLC

\* ------------------------------------------------------------------ bounds
MaxLines   == 2      \* lines of the perfdata file before the run
MaxList    == 3      \* entries of Hosts.list and of Hosts.colors
MaxBlob    == 3      \* characters of a detail blob (extraction runs)
MaxAppends == 2      \* records the upstream writer appends during a run

\* --------------------------------------------------------------- constants
NaN     == -1                    \* pandas' missing value; the regex has no '-'
KEY     == "Ambient_temperatureC="
Digits  == {"1", "2"}
NumChars == Digits \cup {"."}    \* the character class [\d.]
Alphabet == {KEY, "x"} \cup NumChars
HostNames  == {"h1", "h2"}
ColorNames == {"c1", "c2"}

Options ==
  <<"original_file", "copied_file", "graph_file", "excel_file",
    "smtp_server", "smtp_port", "from_email", "to_email", "list", "colors">>

VARIABLES
  pc,        \* position of main(): the step to run next, "done" or "failed"
  cfg,       \* the configuration file: options present, kind of smtp_port,
             \* the values of Hosts.list and Hosts.colors
  hosts,     \* config['Hosts']['list'].split(',')
  colors,    \* config['Hosts']['colors'].split(',')
  original,  \* content of original_file: a sequence of lines
  copied,    \* copied_file: whether it exists, and its lines
  graph,     \* graph_file: whether it exists, is complete, and its series
  data,      \* the DataFrame: one row per line of copied_file
  mail,      \* what send_email delivered, logged or raised
  trace,     \* the steps main() has started, in order
  failedAt,  \* the step whose exception ended the run, or "none"
  preRun,    \* content of original_file when the run started
  snapshot,  \* the content shutil.copyfile wrote when it succeeded
  appended   \* the records the upstream writer appended during the run

vars == <<pc, cfg, hosts, colors, original, copied, graph, data, mail, trace,
          failedAt, preRun, snapshot, appended>>

\* ------------------------------------------------------------------ helpers
Min(a, b) == IF a <= b THEN a ELSE b

RECURSIVE SelectSeq2(_, _)
\* the subsequence of s whose elements are in the set keep
SelectSeq2(s, keep) ==
  IF s = <<>> THEN <<>>
  ELSE IF Head(s) \in keep THEN <<Head(s)>> \o SelectSeq2(Tail(s), keep)
       ELSE SelectSeq2(Tail(s), keep)

SeqsUpTo(S, lo, hi) == UNION {[1..n -> S] : n \in lo..hi}

\* a line of the perfdata file; ts is the epoch-seconds Timestamp column
Line(t, h, b, isBad) == [ts |-> t, host |-> h, blob |-> b, bad |-> isBad]

\* the file whose i-th line has the i-th kind; the writer stamps lines in order
MkFile(kinds) ==
  [i \in 1..Len(kinds) |->
     Line(i, kinds[i].host, kinds[i].blob, kinds[i].bad)]

\* -------------------------------------------------- configuration (43-71, 154-169)
\* the first access of main() that raises on this configuration, "" if none:
\* a missing option raises KeyError, int() of a non-integer port ValueError
RECURSIVE FirstError(_, _)
FirstError(c, i) ==
  IF i > Len(Options) THEN ""
  ELSE IF Options[i] \notin c.present THEN Options[i]
  ELSE IF Options[i] = "smtp_port" /\ ~c.portIsInt THEN "smtp_port"
  ELSE FirstError(c, i + 1)

\* variant: the port is converted only where it is used, so a port that is
\* no integer passes the configuration step
RECURSIVE FirstMissing(_, _)
FirstMissing(c, i) ==
  IF i > Len(Options) THEN ""
  ELSE IF Options[i] \notin c.present THEN Options[i]
  ELSE FirstMissing(c, i + 1)

ConfigError_PortUnchecked(c) == FirstMissing(c, 1)

ConfigError(c) == FirstError(c, 1)

\* str.split(','): never empty, the entries in the order written
SplitLists(names) == SeqsUpTo(names, 1, MaxList)

AllOptions == {Options[i] : i \in 1..Len(Options)}

Config(p, isInt, hs, cs) ==
  [present |-> p, portIsInt |-> isInt, list |-> hs, colors |-> cs]

\* complete configurations, with every pair of lists
ValidConfigs ==
  {Config(AllOptions, TRUE, hs, cs) :
     hs \in SplitLists(HostNames), cs \in SplitLists(ColorNames)}

\* one option missing, every option missing, or a port that is no integer
InvalidConfigs ==
  {Config(AllOptions \ {o}, TRUE, <<"h1">>, <<"c1">>) : o \in AllOptions}
  \cup {Config({}, TRUE, <<"h1">>, <<"c1">>),
        Config(AllOptions, FALSE, <<"h1">>, <<"c1">>)}

\* ------------------------------------------------------- pandas.read_csv (178-179)
\* read_csv raises on a file with no lines and on a line it cannot tokenize
CanParse(content) ==
  content # <<>> /\ \A i \in 1..Len(content) : ~content[i].bad

\* ------------------------------------------- Series.str.extract + astype (186)
\* positions where the pattern Ambient_temperatureC=([\d.]+) matches
MatchStarts(b) ==
  {p \in 1..(Len(b) - 1) : b[p] = KEY /\ b[p + 1] \in NumChars}

\* the end of the greedy group [\d.]+ that starts at position p
RECURSIVE GroupEnd(_, _)
GroupEnd(b, p) ==
  IF p < Len(b) /\ b[p + 1] \in NumChars THEN GroupEnd(b, p + 1) ELSE p

\* str.extract: the group of the leftmost match, <<>> standing for no match
Captured(b) ==
  IF MatchStarts(b) = {} THEN <<>>
  ELSE LET p == CHOOSE q \in MatchStarts(b) : \A r \in MatchStarts(b) : q <= r
       IN  SubSeq(b, p + 1, GroupEnd(b, p + 1))

DotCount(s) == Cardinality({i \in 1..Len(s) : s[i] = "."})

\* float(s) accepts a string of [\d.] with a digit in it and at most one dot
CanFloat(s) == DotCount(s) <= 1 /\ \E i \in 1..Len(s) : s[i] \in Digits

DigitVal(ch) == IF ch = "1" THEN 1 ELSE 2

RECURSIVE Pow10(_)
Pow10(n) == IF n = 0 THEN 1 ELSE 10 * Pow10(n - 1)

RECURSIVE IntOf(_)
IntOf(ds) ==
  IF ds = <<>> THEN 0
  ELSE 10 * IntOf(SubSeq(ds, 1, Len(ds) - 1)) + DigitVal(ds[Len(ds)])

\* floats are held in units of 10^-Scale.  MaxBlob bounds the fraction digits
Scale == Pow10(MaxBlob + 1)

\* float(s) for a string CanFloat accepts
ToFloat(s) ==
  LET dots == {i \in 1..Len(s) : s[i] = "."}
      d    == IF dots = {} THEN Len(s) + 1 ELSE CHOOSE i \in dots : TRUE
      ip   == SubSeq(s, 1, d - 1)
      fp   == SubSeq(s, d + 1, Len(s))
  IN  IntOf(ip) * Scale + IntOf(fp) * (Scale \div Pow10(Len(fp)))

\* line 186 raises: ValueError from astype(float) on a group float() rejects
ExtractRaises(rows) ==
  \E i \in 1..Len(rows) :
     Captured(rows[i].blob) # <<>> /\ ~CanFloat(Captured(rows[i].blob))

Temperature(b) == IF Captured(b) = <<>> THEN NaN ELSE ToFloat(Captured(b))

\* lines 186-188: the columns Temperature and Date added to every row
WithTemperature(rows) ==
  [i \in 1..Len(rows) |->
     [ts |-> rows[i].ts, host |-> rows[i].host, blob |-> rows[i].blob,
      temp |-> Temperature(rows[i].blob),
      date |-> [epoch |-> rows[i].ts, tz |-> "naive"]]]

\* --------------------------------------------------- generate_graph (130-146)
\* variant: the colors are cycled to the length of the host list
Zip_Cycled(hs, cs) == [i \in 1..Len(hs) |-> <<hs[i], cs[((i - 1) % Len(cs)) + 1]>>]

\* zip(hosts, colors): pairs up to the shorter list
Zip(hs, cs) == [i \in 1..Min(Len(hs), Len(cs)) |-> <<hs[i], cs[i]>>]

\* data[data['Host'] == host]
HostData(rows, h) == SelectSeq2(rows, {r \in {rows[i] : i \in 1..Len(rows)} : r.host = h})

\* tz_localize('UTC').tz_convert(rome_tz): the same instant, shown in Rome
ToRome(d) == [epoch |-> d.epoch, tz |-> "Europe/Rome"]

\* one plt.plot call: every row of the host, with its Temperature as it is
PlotOf(rows, pair) ==
  LET hd == HostData(rows, pair[1])
  IN  [label |-> pair[1], color |-> pair[2],
       points |-> [i \in 1..Len(hd) |-> [date |-> ToRome(hd[i].date), temp |-> hd[i].temp]]]

RECURSIVE Plots(_, _)
\* the plt.plot calls of the loop, in order; a host with no row is skipped
Plots(rows, pairs) ==
  IF pairs = <<>> THEN <<>>
  ELSE LET rest == Plots(rows, Tail(pairs))
       IN  IF HostData(rows, Head(pairs)[1]) # <<>>
           THEN <<PlotOf(rows, Head(pairs))>> \o rest
           ELSE rest

GenerateGraph(rows, hs, cs) == Plots(rows, Zip(hs, cs))

\* ------------------------------------------------------------------- files
NoCopy  == [exists |-> FALSE, content |-> <<>>]
NoGraph == [exists |-> FALSE, complete |-> FALSE, plots |-> <<>>]
NoMail  == [status |-> "none", attachments |-> <<>>]

\* blobs of the pipeline runs: no token, a number, a lone dot
RunBlobs == {<<"x">>, <<KEY, "2">>, <<KEY, ".">>}

LineKinds(blobs) ==
  {[host |-> h, blob |-> b, bad |-> FALSE] : h \in HostNames, b \in blobs}
  \cup {[host |-> "h1", blob |-> <<>>, bad |-> TRUE]}

Files(kinds, lo, hi) == {MkFile(k) : k \in SeqsUpTo(kinds, lo, hi)}

InitWith(configs, files) ==
  /\ pc = "config"
  /\ cfg \in configs
  /\ hosts = <<>>
  /\ colors = <<>>
  /\ original \in files
  /\ preRun = original
  /\ copied = NoCopy
  /\ graph = NoGraph
  /\ data = <<>>
  /\ mail = NoMail
  /\ trace = <<>>
  /\ failedAt = "none"
  /\ snapshot = <<>>
  /\ appended = <<>>

Init == InitWith(ValidConfigs \cup InvalidConfigs, Files(LineKinds(RunBlobs), 0, MaxLines))

\* ------------------------------------------------------------ steps of main()
\* an exception main() does not catch: the run ends where it was raised
Raise(step) == pc' = "failed" /\ failedAt' = step

\* lines 154-169
ReadConfig ==
  /\ pc = "config"
  /\ trace' = Append(trace, "config")
  /\ IF ConfigError(cfg) # ""
     THEN Raise("config") /\ UNCHANGED <<hosts, colors>>
     ELSE /\ hosts' = cfg.list
          /\ colors' = cfg.colors
          /\ pc' = "copy"
          /\ UNCHANGED failedAt
  /\ UNCHANGED <<cfg, original, copied, graph, data, mail, preRun, snapshot, appended>>

\* variant: an error while writing the copy is ignored and the run goes on
CopyFile_Unverified ==
  /\ pc = "copy"
  /\ trace' = Append(trace, "copy")
  /\ \E k \in 0..Len(original) :
        /\ copied' = [exists |-> TRUE, content |-> SubSeq(original, 1, k)]
        /\ snapshot' = SubSeq(original, 1, k)
  /\ pc' = "truncate"
  /\ UNCHANGED <<cfg, hosts, colors, original, graph, data, mail, failedAt, preRun, appended>>

\* line 172, shutil.copyfile: it opens both files, then writes; an error on
\* opening leaves copied_file as it was, an error on writing leaves a part
CopyFile ==
  /\ pc = "copy"
  /\ trace' = Append(trace, "copy")
  /\ \/ /\ copied' = [exists |-> TRUE, content |-> original]
        /\ snapshot' = original
        /\ pc' = "truncate"
        /\ UNCHANGED failedAt
     \/ /\ Raise("copy")
        /\ UNCHANGED <<copied, snapshot>>
     \/ /\ original # <<>>
        /\ \E k \in 0..(Len(original) - 1) :
              copied' = [exists |-> TRUE, content |-> SubSeq(original, 1, k)]
        /\ Raise("copy")
        /\ UNCHANGED snapshot
  /\ UNCHANGED <<cfg, hosts, colors, original, graph, data, mail, preRun, appended>>

\* line 175, open(original_file, 'w').close()
Truncate ==
  /\ pc = "truncate"
  /\ trace' = Append(trace, "truncate")
  /\ \/ original' = <<>> /\ pc' = "load" /\ UNCHANGED failedAt
     \/ Raise("truncate") /\ UNCHANGED original
  /\ UNCHANGED <<cfg, hosts, colors, copied, graph, data, mail, preRun, snapshot, appended>>

\* lines 178-179, pd.read_csv(copied_file)
Load ==
  /\ pc = "load"
  /\ trace' = Append(trace, "load")
  /\ IF copied.exists /\ CanParse(copied.content)
     THEN data' = copied.content /\ pc' = "extract" /\ UNCHANGED failedAt
     ELSE Raise("load") /\ UNCHANGED data
  /\ UNCHANGED <<cfg, hosts, colors, original, copied, graph, mail, preRun, snapshot, appended>>

\* lines 186-188
Extract ==
  /\ pc = "extract"
  /\ trace' = Append(trace, "extract")
  /\ IF ExtractRaises(data)
     THEN Raise("extract") /\ UNCHANGED data
     ELSE data' = WithTemperature(data) /\ pc' = "render" /\ UNCHANGED failedAt
  /\ UNCHANGED <<cfg, hosts, colors, original, copied, graph, mail, preRun, snapshot, appended>>

\* variant: an error of plt.savefig is swallowed and the run goes on
Render_Swallowed ==
  /\ pc = "render"
  /\ trace' = Append(trace, "render")
  /\ \E wrote, left \in BOOLEAN :
        graph' = IF wrote
                 THEN [exists |-> TRUE, complete |-> TRUE,
                       plots |-> GenerateGraph(data, hosts, colors)]
                 ELSE IF left THEN [exists |-> TRUE, complete |-> FALSE, plots |-> <<>>]
                 ELSE graph
  /\ pc' = "notify"
  /\ UNCHANGED <<cfg, hosts, colors, original, copied, data, mail, failedAt, preRun,
                 snapshot, appended>>

\* lines 191-192; plt.savefig may fail before or after it created the file
Render ==
  /\ pc = "render"
  /\ trace' = Append(trace, "render")
  /\ \/ /\ graph' = [exists |-> TRUE, complete |-> TRUE,
                     plots |-> GenerateGraph(data, hosts, colors)]
        /\ pc' = "notify"
        /\ UNCHANGED failedAt
     \/ /\ \E left \in BOOLEAN :
              graph' = IF left THEN [exists |-> TRUE, complete |-> FALSE, plots |-> <<>>]
                       ELSE graph
        /\ Raise("render")
  /\ UNCHANGED <<cfg, hosts, colors, original, copied, data, mail, preRun, snapshot, appended>>

\* lines 199 and 90-112: the attachments are read outside the try block,
\* the SMTP session inside it
SendEmail ==
  /\ pc = "notify"
  /\ trace' = Append(trace, "notify")
  /\ \/ /\ mail' = [status |-> "raised", attachments |-> <<>>]
        /\ Raise("notify")
     \/ /\ graph.exists /\ copied.exists
        /\ \E delivered \in BOOLEAN :
              mail' = [status |-> IF delivered THEN "sent" ELSE "logged",
                       attachments |-> <<graph, copied>>]
        /\ pc' = "cleanup"
        /\ UNCHANGED failedAt
  /\ UNCHANGED <<cfg, hosts, colors, original, copied, graph, data, preRun, snapshot, appended>>

\* lines 202-203
Cleanup ==
  /\ pc = "cleanup"
  /\ trace' = Append(trace, "cleanup")
  /\ copied' = NoCopy
  /\ graph' = NoGraph
  /\ pc' = "done"
  /\ UNCHANGED <<cfg, hosts, colors, original, data, mail, failedAt, preRun, snapshot, appended>>

Next ==
  \/ ReadConfig
  \/ CopyFile
  \/ Truncate
  \/ Load
  \/ Extract
  \/ Render
  \/ SendEmail
  \/ Cleanup

Spec == Init /\ [][Next]_vars

\* ------------------------------------------------- runs on every kind of blob
\* a field that is empty or a bare number is not text to read_csv; perfdata
\* is key=value text, and the runs keep to it
IsNumericField(b) ==
  b = <<>> \/ ((\A i \in 1..Len(b) : b[i] \in NumChars) /\ CanFloat(b))

AllBlobs == {b \in SeqsUpTo(Alphabet, 1, MaxBlob) : ~IsNumericField(b)}

OneHostKinds == {[host |-> "h1", blob |-> b, bad |-> FALSE] : b \in AllBlobs}

InitExtract ==
  InitWith({Config(AllOptions, TRUE, <<"h1">>, <<"c1">>)}, Files(OneHostKinds, 1, MaxLines))

SpecExtract == InitExtract /\ [][Next]_vars

\* ------------------------------------------------ runs beside the Nagios writer
\* Nagios appends a perfdata line to original_file while main() is running
Append1 ==
  /\ pc \in {"copy", "truncate", "load", "extract", "render", "notify", "cleanup"}
  /\ Len(appended) < MaxAppends
  /\ LET rec == Line(Len(preRun) + Len(appended) + 1, "h1", <<KEY, "2">>, FALSE)
     IN  /\ original' = Append(original, rec)
         /\ appended' = Append(appended, rec)
  /\ UNCHANGED <<pc, cfg, hosts, colors, copied, graph, data, mail, trace, failedAt,
                 preRun, snapshot>>

NextWriter == Next \/ Append1

InitWriter ==
  InitWith({Config(AllOptions, TRUE, <<"h1">>, <<"c1">>)}, Files(LineKinds(RunBlobs), 0, MaxLines))

SpecWriter == InitWriter /\ [][NextWriter]_vars

\* ======================================================================
\* Properties
\* ======================================================================
InTrace(step) == \E i \in 1..Len(trace) : trace[i] = step
Ended     == pc \in {"done", "failed"}
Truncated == InTrace("truncate") /\ failedAt # "truncate"
Elems(s)  == {s[i] : i \in 1..Len(s)}
IsPrefix(s, t) == Len(s) <= Len(t) /\ SubSeq(t, 1, Len(s)) = s

\* C1: when a run has ended, whichever step failed or succeeded, neither the
\* snapshot copy nor the chart file it created is left on disk.
C1_CleanupOnEveryExit == Ended => ~copied.exists /\ ~graph.exists

\* C2: the original file is truncated only after the copy succeeded: a run
\* whose copy fails leaves the original as it was, and once the original is
\* truncated it is empty and its pre-run content is, line for line, the
\* content written to the snapshot copy (still in copied_file until cleanup).
C2_TruncateAfterCopy ==
  /\ failedAt = "copy" => ~InTrace("truncate") /\ original = preRun
  /\ InTrace("truncate") => Len(trace) >= 2 /\ trace[Len(trace)] # "copy" /\ InTrace("copy")
  /\ Truncated =>
       /\ original = <<>>
       /\ snapshot = preRun
       /\ (pc # "done" => copied.exists /\ copied.content = preRun)

C2_Witness ==
  Truncated /\ preRun # <<>> /\ original = <<>> /\ copied.exists /\ copied.content = preRun

\* C3: a run whose source file cannot be read (the copy raises) or whose
\* content has a line that does not parse ends in failure with the original
\* file still holding its pre-run content.
WrongShape(content) == \E i \in 1..Len(content) : content[i].bad

C3_InputErrorsKeepOriginal ==
  (Ended /\ (failedAt = "copy" \/ WrongShape(preRun))) =>
     pc = "failed" /\ original = preRun

\* C4: with a required option missing or a port that is no integer, the run
\* ends at the configuration step and no file was copied, truncated, created
\* or deleted.
InvalidConfig == cfg.present # AllOptions \/ ~cfg.portIsInt

C4_ConfigErrorNoMutation ==
  InvalidConfig =>
     /\ pc \in {"config", "failed"}
     /\ pc = "failed" => failedAt = "config" /\ trace = <<"config">>
     /\ original = preRun
     /\ copied = NoCopy
     /\ graph = NoGraph
     /\ mail = NoMail

C4_Witness ==
  pc = "failed" /\ ~cfg.portIsInt /\ cfg.present = AllOptions /\ preRun # <<>>

\* C5: every failure inside send_email, a failure to read an attachment
\* included, is logged and not raised: the run goes on to cleanup, deletes
\* both artifact files and ends without error.
C5_NotifierFailureSwallowed ==
  (InTrace("notify") /\ mail.status # "sent") =>
     /\ mail.status = "logged"
     /\ failedAt = "none"
     /\ pc = "done" => ~copied.exists /\ ~graph.exists

\* C6: extraction never fails the run and yields one Reading per record, in
\* input order, whose temperature is the number of the token
\* Ambient_temperatureC=<digits[.digits]> when the blob has one, and absent
\* when the token is missing or malformed.
WellFormedNumber(s) ==
  /\ s # <<>>
  /\ s[1] \in Digits
  /\ s[Len(s)] \in Digits
  /\ DotCount(s) <= 1

\* nothing after the key, no digit at all, or more than one dot
MalformedNumber(s) == s = <<>> \/ DotCount(s) >= 2 \/ \A i \in 1..Len(s) : s[i] = "."

KeysOf(b) == {p \in 1..Len(b) : b[p] = KEY}

\* the text after the key at p, up to the first character that is neither a
\* digit nor a dot
ValueText(b, p) == SubSeq(b, p + 1, GroupEnd(b, p))

\* what the claim says of a blob: the number of its first well-formed token,
\* absent when every token is malformed or there is none; a value such as
\* "1." or ".1", which the claim does not place, is left open
TemperatureAsClaimed(b, t) ==
  LET good == {p \in KeysOf(b) : WellFormedNumber(ValueText(b, p))}
      open == {p \in KeysOf(b) : ~WellFormedNumber(ValueText(b, p))
                                 /\ ~MalformedNumber(ValueText(b, p))}
  IN  IF open # {} THEN TRUE
      ELSE IF good # {}
           THEN t = ToFloat(ValueText(b, CHOOSE q \in good : \A r \in good : q <= r))
           ELSE t = NaN

C6_ExtractionNeverFails ==
  InTrace("extract") =>
     /\ failedAt # "extract"
     /\ Len(data) = Len(preRun)
     /\ \A i \in 1..Len(data) :
           /\ data[i].ts = preRun[i].ts
           /\ TemperatureAsClaimed(preRun[i].blob, data[i].temp)

\* C7: the chart holds one series for each host paired with a color that has
\* a reading with a present temperature, in host-list order, none for a host
\* without one, and every point of a series has a present temperature.
HasPresent(rows, h) == \E i \in 1..Len(rows) : rows[i].host = h /\ rows[i].temp # NaN

RECURSIVE HostsWithPresent(_, _)
HostsWithPresent(rows, hs) ==
  IF hs = <<>> THEN <<>>
  ELSE IF HasPresent(rows, Head(hs))
       THEN <<Head(hs)>> \o HostsWithPresent(rows, Tail(hs))
       ELSE HostsWithPresent(rows, Tail(hs))

C7_SeriesOnlyForPresent ==
  graph.complete =>
     /\ [k \in 1..Len(graph.plots) |-> graph.plots[k].label]
          = HostsWithPresent(data, SubSeq(hosts, 1, Min(Len(hosts), Len(colors))))
     /\ \A k \in 1..Len(graph.plots) :
           \A j \in 1..Len(graph.plots[k].points) : graph.plots[k].points[j].temp # NaN

\* C8: every series is drawn for a host with the color at the same index of
\* the two lists, the series follow the order of the lists, and no index
\* beyond the shorter list is used.
C8_PairingByIndex ==
  graph.complete =>
     LET n == Len(graph.plots)
         m == Min(Len(hosts), Len(colors))
     IN  \E f \in [1..n -> 1..m] :
            /\ \A j, k \in 1..n : j < k => f[j] < f[k]
            /\ \A k \in 1..n : /\ graph.plots[k].label = hosts[f[k]]
                               /\ graph.plots[k].color = colors[f[k]]

C8_Witness ==
  /\ graph.complete
  /\ Len(hosts) # Len(colors)
  /\ Len(graph.plots) = 2
  /\ graph.plots[1].color # graph.plots[2].color

\* C9: once the original file is truncated, every record the writer has
\* appended during the run is in the snapshot copy or still in the original.
C9_NoAppendedRecordLost ==
  Truncated => \A r \in Elems(appended) : r \in Elems(snapshot) \/ r \in Elems(original)

\* C10: the steps of a run are a prefix of copy, truncate, load, extract,
\* render, notify, cleanup (after the configuration is read), a step that
\* fails is the last one started, and send_email is started only with the
\* chart file completely written.
StepOrder ==
  <<"config", "copy", "truncate", "load", "extract", "render", "notify", "cleanup">>

C10_LinearPipeline ==
  /\ IsPrefix(trace, StepOrder)
  /\ failedAt # "none" => pc = "failed" /\ trace # <<>> /\ trace[Len(trace)] = failedAt
  /\ pc = "failed" => failedAt # "none"
  /\ InTrace("notify") =>
       /\ InTrace("render") /\ failedAt # "render"
       /\ pc # "done" => graph.exists /\ graph.complete
       /\ mail.status \in {"sent", "logged"} => mail.attachments[1].complete

C10_Witness ==
  pc = "failed" /\ failedAt = "render" /\ graph.exists /\ ~graph.complete /\ mail = NoMail

====
